---- MODULE Spec2Model ----
(***************************************************************************)
(* Job orchestration and progress streaming of Finance-Report-Assistant:   *)
(* the job registry and publish_event (src/jobs.py), the process runner    *)
(* _run_cmd_stream, the conversion worker _convert_job, the retention      *)
(* sweeper perform_cleanup, and the submission and event-stream endpoints  *)
(* of src/api.py.                                                          *)
(*                                                                         *)
(* Spec        one job's life: submission, worker, external tool, working  *)
(*             directory, clock and sweeper.                               *)
(* SpecRunner  _run_cmd_stream alone, over (percent_base, percent_span)    *)
(*             pairs and tool percentages the worker's one call does not   *)
(*             cover.                                                      *)
(* SpecBus     the registry and the subscriber channels: publish_event     *)
(*             called by any caller, job_events and its reader.            *)
(* SpecSweep   perform_cleanup over the directories of output_root.        *)
(* SpecAttempts  the worker's loop over the candidate commands, with       *)
(*             several progress lines in one run and in later runs.        *)
(* SpecSnapshot  the end of a winning job's worker, from conversion.log to  *)
(*             the done event, beside a job_events call and its snapshot.  *)
(* SpecFanout  two registered jobs and two subscribers' channels:          *)
(*             publish_event, the readers and disconnects, after the       *)
(*             sweeper may have removed either job.                        *)
(* SpecUnregister  the end of a winning job's worker beside the sweeper,   *)
(*             whose rmtree and registry removal are separate steps.       *)
(***************************************************************************)
EXTENDS Integers, Sequences, FiniteSets, TLC

\* ------------------------------------------------------------------ bounds
\* Spec: lines the external tool prints at most over all the runs of one job.
MaxLines == 1
\* Spec: time.time() takes the values 0..MaxClock (one unit is one hour).
MaxClock == 1
\* SpecRunner: lines the tool prints at most in the one run.
MaxRunnerLines == 1
\* SpecBus: queue.Queue(maxsize) is built with a maxsize in 1..MaxCap.
MaxCap == 2
\* SpecBus: publish_event calls and duplicate submissions, MaxPublishes at most.
MaxPublishes == 3
\* SpecFanout: publish_event calls, MaxFanoutPublishes at most.
MaxFanoutPublishes == 2
\* SpecAttempts: lines the tool prints at most over all the runs of the job.
MaxAttemptLines == 2

\* ------------------------------------------------------- program constants
\* _log_job's percent=None and an event without a "percent" key.
NoPercent == -1
\* _run_cmd_stream: last_sent = -1.
LastSentInit == -1
\* os.getenv("FRA_PROGRESS_PERCENT_STEP", "1").
ProgressStep == 1
\* len(error_lines) < 10.
ErrorLinesCap == 10
\* min(99, mapped).
PercentClampMax == 99
\* percent_base=5, percent_span=80 at the one call of _run_cmd_stream.
ConvertPercentBase == 5
ConvertPercentSpan == 80
\* s.job_ttl_hours * 3600.
SecondsPerHour == 3600
\* queue.Queue(maxsize=1000) in job_events.
QueueMaxsize == 1000

JobIds == {"j1"}

\* The directories output_root can hold: the followed job's, the directory of
\* a second job j2, of which only the directory and the key in _JOBS are
\* modelled, and "logs".
LogsDir == "logs"
DirIds == JobIds \cup {"j2", LogsDir}
SubIds == {"s1"}

\* The keys _JOBS may hold and the queues job_events calls may build: those
\* of JobIds and SubIds, and a second job and a second subscriber's queue.
JobKeys == JobIds \cup {"j2"}
QueueIds == SubIds \cup {"s2"}

\* JobState.stage values; "unregistered" stands for "no JobState was built yet".
Stages == {"queued", "prepare", "convert", "collect_output", "done", "error"}
TerminalStages == {"done", "error"}

\* The keys an event dict may lack are "absent" here.
Absent == "absent"

\* ------------------------------------------------------------ tool output
\* One line of the tool's combined output, by what _run_cmd_stream reads in
\* it: the first percentage token (NoPercent when the pattern does not match),
\* the error-signature marker it contains ("none" when it contains none), and
\* whether line.strip() is empty.  att is the attempt that printed it.
LineShape(pct, sig, blank) == [pct |-> pct, sig |-> sig, blank |-> blank]

\* Spec: a plain line, a line with an error signature, "42%" and "999%".
LineShapes ==
    {LineShape(NoPercent, "none", FALSE), LineShape(NoPercent, "ModelWrapper", FALSE),
     LineShape(42, "none", FALSE), LineShape(999, "none", FALSE)}

\* SpecRunner: every tool-local percentage 0..100, "999%", and the lines of
\* the other kinds, the empty line included.
RunnerLineShapes ==
    {LineShape(p, "none", FALSE) : p \in (0..100) \cup {999}}
    \cup {LineShape(NoPercent, s, FALSE) : s \in {"none", "ModelWrapper", "ProtocolError"}}
    \cup {LineShape(NoPercent, "none", TRUE)}

\* SpecAttempts: "0%", "42%", "999%" and a plain line.
AttemptLineShapes ==
    {LineShape(0, "none", FALSE), LineShape(42, "none", FALSE),
     LineShape(999, "none", FALSE), LineShape(NoPercent, "none", FALSE)}

Line(att, shape) == [att |-> att, pct |-> shape.pct, sig |-> shape.sig, blank |-> shape.blank]

\* any(x in line for x in ["Traceback", "Error", ...]).
IsErrorSignature(line) == line.sig # "none"

\* "ModelWrapper" in last_error_log.
HasMarker(log, m) == \E i \in 1..Len(log) : log[i].sig = m

\* ------------------------------------------------------- percent mapping
\* The (pct, percent_span) pairs, among the percentages and spans of this
\* model, whose double product (pct / 100.0) * percent_span lies just below
\* the exact integer product: 0.29 * 100 is 28.999999999999996.
FloatShortfall == {<<29, 100>>, <<57, 100>>, <<58, 100>>}

\* A runner that rounds the product to the nearest integer instead.
RoundedProduct(pct, span) == ((pct * span) + 50) \div 100

\* int((pct / 100.0) * percent_span): the double product truncated.
FloatTruncProduct(pct, span) ==
    ((pct * span) \div 100) - (IF <<pct, span>> \in FloatShortfall THEN 1 ELSE 0)

Max2(a, b) == IF a >= b THEN a ELSE b
Min2(a, b) == IF a <= b THEN a ELSE b

\* A runner without line 114's clamp.
MappedUnclamped(pct, base, span) == base + FloatTruncProduct(pct, span)

\* A runner whose clamp lets 100 through.
MappedClampedTo100(pct, base, span) ==
    Max2(0, Min2(PercentClampMax + 1, base + FloatTruncProduct(pct, span)))

\* mapped = percent_base + int((pct / 100.0) * percent_span)
\* mapped = max(0, min(99, mapped))
MappedPercent(pct, base, span) ==
    Max2(0, Min2(PercentClampMax, base + FloatTruncProduct(pct, span)))

\* ------------------------------------------------------------------ events
\* serial is the position of a SpecBus caller's event among the writes to the
\* registry's records; the worker's events have serial 0.
Event(type, stage, percent, ok, error, md) ==
    [type |-> type, stage |-> stage, percent |-> percent, ok |-> ok,
     error |-> error, md_path |-> md, job_id |-> Absent, serial |-> 0]

\* A _log_job whose events all carry the stage the job started in.
LogJobStaleStage(stage, percent) == Event("log", "prepare", percent, Absent, Absent, Absent)

\* _log_job: {"type": "log", "level", "stage", "message"} plus "percent" when given.
_log_job(stage, percent) == Event("log", stage, percent, Absent, Absent, Absent)

\* The five progress events _convert_job publishes.
PrepareEvent == Event("progress", "prepare", 1, "null", Absent, Absent)
ConvertEvent == Event("progress", "convert", ConvertPercentBase, "null", Absent, Absent)
\* A collect_output event that already announces success.
CollectEventOk == Event("progress", "collect_output", 90, "true", Absent, Absent)

CollectEvent == Event("progress", "collect_output", 90, "null", Absent, Absent)
ErrorEvent(msg) == Event("progress", "error", 100, "false", msg, Absent)
DoneEvent == Event("progress", "done", 100, "true", Absent, "target")

\* msg = "Failed to convert. " + one of three endings, by the transcript.
FailureMessage(log) ==
    IF HasMarker(log, "ModelWrapper") THEN "layout_engine"
    ELSE IF HasMarker(log, "ProtocolError") THEN "model_download"
    ELSE "check_logs"

\* The first item of job_events' stream.
SnapshotItem(stage, percent, ok) == Event("snapshot", stage, percent, ok, Absent, Absent)

\* --------------------------------------------------------------- variables
VARIABLES
    JOBS,         \* the keys of _JOBS, a set of directory names
    job,          \* the JobState object of each job id
    stageTrace,   \* the stage values each JobState took, repeats dropped
    lastEvent,    \* the event of the latest publish_event call for each job
    delivery,     \* the publish_event call that holds _JOBS_LOCK in its delivery loop
    worker,       \* the thread running _convert_job for each job
    fs,           \* the directories of output_root, by name
    clock,        \* time.time()
    job_ttl_hours,\* settings.job_ttl_hours
    sweeper,      \* the cleanup thread inside perform_cleanup
    queues,       \* the items in each subscriber's queue.Queue
    maxsize,      \* the maxsize those queues are built with
    reader,       \* each subscriber's job_events call and generator
    serial        \* SpecBus: the number of writes to the registry's records so far

vars == <<JOBS, job, stageTrace, lastEvent, delivery, worker, fs, clock, job_ttl_hours,
          sweeper, queues, maxsize, reader, serial>>

registryVars == <<JOBS, job, stageTrace, lastEvent, delivery>>
timeVars == <<clock, job_ttl_hours, sweeper>>
busVars == <<queues, maxsize, reader, serial>>

NoEvent == Event("none", Absent, NoPercent, Absent, Absent, Absent)
\* No conversion.log in the job directory.
NoLog == [present |-> FALSE, text |-> <<>>]
LogFile(text) == [present |-> TRUE, text |-> text]

\* JobState as convert_endpoint builds it.
QueuedJobState(now) ==
    [stage |-> "queued", percent |-> 0, ok |-> "null", error |-> Absent,
     md_path |-> Absent, updated_at |-> now, subscribers |-> <<>>]

UnbuiltJobState ==
    [stage |-> "unregistered", percent |-> 0, ok |-> "null", error |-> Absent,
     md_path |-> Absent, updated_at |-> 0, subscribers |-> <<>>]

\* The thread's position and the locals of _convert_job and _run_cmd_stream,
\* with records of what happened: succeeded is the first attempt whose run
\* reported success with a result file in the directory (0: none so far),
\* output is every line the tool printed in the job's runs so far, runs is
\* the number of _run_cmd_stream calls made, and rc is what p.wait() returned
\* in the call that ended last (kept until its result is probed).
IdleWorker ==
    [pc |-> "none", launch |-> {}, ncmds |-> 0, idx |-> 0, pdf |-> TRUE,
     runs |-> 0, rc |-> 0,
     percent_base |-> ConvertPercentBase, percent_span |-> ConvertPercentSpan,
     last_sent |-> LastSentInit, error_lines |-> <<>>, full_output |-> <<>>,
     full_log |-> <<>>, cmd_ok |-> FALSE, last_error_log |-> <<>>, ok |-> FALSE,
     md_found |-> FALSE, succeeded |-> 0, output |-> <<>>]

\* A job directory: whether it exists, whether it holds the uploaded source
\* file, the attempt whose run wrote the markdown under it (0: none), whether
\* the canonical <stem>.md was placed, conversion.log, and st_mtime.
NoDir == [exists |-> FALSE, source |-> FALSE, md |-> 0, target |-> FALSE,
          log |-> NoLog, mtime |-> 0]

\* No publish_event call is inside its delivery loop.
NoDelivery == [job |-> "none", event |-> NoEvent, todo |-> <<>>, phase |-> "put"]

\* A job_events call and its generator: st is the JobState object get_job
\* returned, held here once it is no longer the one registered (orphan);
\* stage and percent are the fields the snapshot has read so far, received
\* is what the generator yielded, since is the number of registry writes
\* made before the queue was appended, and seen is the number of registry
\* writes made before the snapshot read st.stage from the object it holds.
IdleReader == [pc |-> "none", job |-> "none", since |-> 0, seen |-> 0,
               orphan |-> FALSE,
               st |-> UnbuiltJobState, stage |-> Absent, percent |-> NoPercent,
               received |-> <<>>]

\* perform_cleanup's position and locals, with a record of what happened:
\* swept lists, for the sweep under way, the directories the loop came to
\* and what became of each; registered: the directory's name was in _JOBS.
IdleSweeper == [pc |-> "idle", now |-> 0, todo |-> {}, swept |-> <<>>]

\* ---------------------------------------------------------- publish_event
\* _JOBS_LOCK is held from line 45 to the end of the delivery loop.
LockFree == delivery.todo = <<>>

\* The registry mutation of publish_event, lines 48-58.
ApplyEvent(st, e, now) ==
    [st EXCEPT
        !.stage = IF e.stage # Absent THEN e.stage ELSE @,
        !.percent = IF e.percent # NoPercent THEN e.percent ELSE @,
        !.ok = IF e.ok # Absent THEN e.ok ELSE @,
        !.error = IF e.error # Absent THEN e.error ELSE @,
        !.md_path = IF e.md_path # Absent THEN e.md_path ELSE @,
        !.updated_at = now]

AppendStage(tr, s) == IF tr # <<>> /\ tr[Len(tr)] = s THEN tr ELSE Append(tr, s)

\* payload.setdefault("job_id", job_id), line 41
Payload(j, e) == IF e.job_id = Absent THEN [e EXCEPT !.job_id = j] ELSE e

\* A publish_event that reads the record it once knew when _JOBS has no such key.
PublishToAnyRecord(j, e) ==
    /\ LockFree
    /\ lastEvent' = [lastEvent EXCEPT ![j] = e]
    /\ job' = [job EXCEPT ![j] = ApplyEvent(@, e, clock)]
    /\ stageTrace' = [stageTrace EXCEPT ![j] = AppendStage(@, job'[j].stage)]
    /\ delivery' = IF job[j].subscribers = <<>> THEN NoDelivery
                   ELSE [job |-> j, event |-> Payload(j, e),
                         todo |-> job[j].subscribers, phase |-> "put"]
    /\ UNCHANGED JOBS

\* publish_event(job_id, event), lines 39-60: the lock is taken, the record of
\* a registered job is updated, and the loop over list(st.subscribers) starts.
\* With no subscriber the call is over and the lock released.
publish_event(j, e) ==
    /\ LockFree
    /\ lastEvent' = [lastEvent EXCEPT ![j] = e]
    /\ IF j \in JOBS
       THEN /\ job' = [job EXCEPT ![j] = ApplyEvent(@, e, clock)]
            /\ stageTrace' = [stageTrace EXCEPT ![j] = AppendStage(@, job'[j].stage)]
            /\ delivery' = IF job[j].subscribers = <<>> THEN NoDelivery
                           ELSE [job |-> j, event |-> Payload(j, e),
                                 todo |-> job[j].subscribers,
                                 phase |-> "put"]
       ELSE UNCHANGED <<job, stageTrace, delivery>>
    /\ UNCHANGED JOBS

\* A loop that a full queue ends: what the retry raises is not caught.
StopAfterRetry(d) ==
    IF Len(d.todo) = 1 \/ d.phase = "retry" THEN NoDelivery
    ELSE [d EXCEPT !.todo = Tail(@), !.phase = "put"]

\* The loop moves to the next subscriber, and past the last one the lock is released.
NextSubscriber(d) ==
    IF Len(d.todo) = 1 THEN NoDelivery ELSE [d EXCEPT !.todo = Tail(@), !.phase = "put"]

DeliveryFrame == UNCHANGED <<JOBS, job, stageTrace, lastEvent, worker, fs, clock,
                             job_ttl_hours, sweeper, maxsize, reader, serial>>

\* q.put_nowait(item) on a queue of maxsize cap: queue.Full leaves it as it is.
QueueFull(q, cap) == Len(q) >= cap
\* A queue that takes a new item at its head.
QueuePutFront(q, item, cap) == IF QueueFull(q, cap) THEN q ELSE <<item>> \o q

QueuePut(q, item, cap) == IF QueueFull(q, cap) THEN q ELSE Append(q, item)

\* A queue that gives up its newest item.
QueueDropNewest(q) == IF q = <<>> THEN q ELSE SubSeq(q, 1, Len(q) - 1)

\* q.get_nowait() and q.get(): the oldest item leaves the queue.
QueueRest(q) == IF q = <<>> THEN q ELSE Tail(q)

\* line 62: q.put_nowait(data); queue.Full leads to lines 64-67.
DeliverPut ==
    /\ delivery.todo # <<>> /\ delivery.phase = "put"
    /\ LET s == Head(delivery.todo) IN
       IF ~QueueFull(queues[s], maxsize)
       THEN /\ queues' = [queues EXCEPT ![s] = QueuePut(@, delivery.event, maxsize)]
            /\ delivery' = NextSubscriber(delivery)
       ELSE /\ delivery' = [delivery EXCEPT !.phase = "discard"]
            /\ UNCHANGED queues
    /\ DeliveryFrame

\* line 64: q.get_nowait(), queue.Empty swallowed.
DeliverDiscard ==
    /\ delivery.todo # <<>> /\ delivery.phase = "discard"
    /\ LET s == Head(delivery.todo) IN
       queues' = [queues EXCEPT ![s] = QueueRest(@)]
    /\ delivery' = [delivery EXCEPT !.phase = "retry"]
    /\ DeliveryFrame

\* line 66: q.put_nowait(data) again, queue.Full swallowed.
DeliverRetry ==
    /\ delivery.todo # <<>> /\ delivery.phase = "retry"
    /\ LET s == Head(delivery.todo) IN
       queues' = [queues EXCEPT ![s] = QueuePut(@, delivery.event, maxsize)]
    /\ delivery' = NextSubscriber(delivery)
    /\ DeliveryFrame

\* ------------------------------------------------------------ submission
\* The parameters of _convert_job and the keywords convert_endpoint's thread
\* passes to it.
ConvertJobParams == {"job_id", "user", "pdf_path", "job_dir", "backend", "mode"}
EndpointKwargs ==
    {"company_code", "company_name", "report_year", "report_type", "source_file_name",
     "source_file_size_bytes", "source_file_mtime_ms", "source_file_sha256"}

\* Python binds a call's keywords to the function's parameters, TypeError otherwise.
BindsTo(kwargs, params) == kwargs \subseteq params

\* candidate_commands returns three commands; an explicit backend is tried first.
CandidateCount(backend) == IF backend THEN 4 ELSE 3

\* The upload is stored, the job registered as queued, the worker started.
RegisterAndStart(j, backend, pdf, launch) ==
    /\ job[j].stage = "unregistered"
    /\ LockFree
    /\ fs' = [fs EXCEPT ![j] = [NoDir EXCEPT !.exists = TRUE, !.source = TRUE,
                                                   !.mtime = clock]]
    /\ JOBS' = JOBS \cup {j}
    /\ job' = [job EXCEPT ![j] = QueuedJobState(clock)]
    /\ stageTrace' = [stageTrace EXCEPT ![j] = <<"queued">>]
    /\ worker' = [worker EXCEPT ![j] = [IdleWorker EXCEPT !.pc = "spawned",
                     !.launch = launch, !.ncmds = CandidateCount(backend), !.pdf = pdf]]
    /\ UNCHANGED <<lastEvent, delivery>> /\ UNCHANGED timeVars /\ UNCHANGED busVars

\* convert_endpoint, lines 351-394 and 430-475: no row of the reports table
\* matches the upload.
convert_endpoint(j) ==
    \E backend \in BOOLEAN, pdf \in BOOLEAN :
        RegisterAndStart(j, backend, pdf, EndpointKwargs)

\* _convert_job started with its six declared parameters and nothing else,
\* backend=None.
CallConvertJob(j) ==
    \E pdf \in BOOLEAN :
        RegisterAndStart(j, FALSE, pdf, {})

\* Thread.run: self._target(*self._args, **self._kwargs).
ThreadRun(j) ==
    /\ worker[j].pc = "spawned"
    /\ worker' = [worker EXCEPT ![j].pc =
                     IF BindsTo(worker[j].launch, ConvertJobParams) THEN "start" ELSE "died"]
    /\ UNCHANGED registryVars /\ UNCHANGED fs /\ UNCHANGED timeVars /\ UNCHANGED busVars

\* -------------------------------------------------------------- the worker
WorkerFrame == UNCHANGED timeVars /\ UNCHANGED busVars

\* line 131
PublishPrepare(j) ==
    /\ worker[j].pc = "start"
    /\ publish_event(j, PrepareEvent)
    /\ worker' = [worker EXCEPT ![j].pc = "log_started"]
    /\ UNCHANGED fs /\ WorkerFrame

\* line 132
LogStarted(j) ==
    /\ worker[j].pc = "log_started"
    /\ publish_event(j, _log_job("prepare", NoPercent))
    /\ worker' = [worker EXCEPT ![j].pc = "pub_convert"]
    /\ UNCHANGED fs /\ WorkerFrame

\* lines 134-146
PublishConvert(j) ==
    /\ worker[j].pc = "pub_convert"
    /\ publish_event(j, ConvertEvent)
    /\ worker' = [worker EXCEPT ![j].pc = "attempt", ![j].idx = 1, ![j].ok = FALSE,
                                ![j].last_error_log = <<>>]
    /\ UNCHANGED fs /\ WorkerFrame

\* line 148
LogAttempt(j) ==
    /\ worker[j].pc = "attempt"
    /\ publish_event(j, _log_job("convert", NoPercent))
    /\ worker' = [worker EXCEPT ![j].pc = "clean"]
    /\ UNCHANGED fs /\ WorkerFrame

\* lines 149-154: every directory and every file whose suffix is not .pdf is
\* removed from job_dir; a removal that raises is skipped (mdStays: the
\* removal of the markdown output raised).  Line 156 then calls
\* _run_cmd_stream with percent_base=5, percent_span=80.
CleanJobDir(j) ==
    /\ worker[j].pc = "clean"
    /\ IF ~fs[j].exists
       THEN \* job_dir.iterdir() raises FileNotFoundError
            /\ worker' = [worker EXCEPT ![j].pc = "died"]
            /\ UNCHANGED fs
       ELSE \E mdStays \in BOOLEAN :
            LET d == fs[j]
                md2 == IF mdStays THEN d.md ELSE 0
                tg2 == IF mdStays THEN d.target ELSE FALSE
                src2 == IF worker[j].pdf THEN d.source ELSE FALSE
                changed == md2 # d.md \/ src2 # d.source \/ tg2 # d.target \/ d.log.present
            IN /\ (mdStays => d.md # 0 \/ d.target)
               /\ fs' = [fs EXCEPT ![j] = [d EXCEPT !.md = md2, !.target = tg2,
                                              !.source = src2, !.log = NoLog,
                                              !.mtime = IF changed THEN clock ELSE @]]
               /\ worker' = [worker EXCEPT ![j].pc = "popen",
                                           ![j].percent_base = ConvertPercentBase,
                                           ![j].percent_span = ConvertPercentSpan]
    /\ UNCHANGED registryVars /\ WorkerFrame

\* lines 95-101: subprocess.Popen raises (FileNotFoundError or another
\* exception): one ERROR log event, and the run returns (False, hint, "").
PopenFails(j) ==
    /\ worker[j].pc = "popen"
    /\ publish_event(j, _log_job("convert", NoPercent))
    /\ worker' = [worker EXCEPT ![j].pc = "probe", ![j].cmd_ok = FALSE,
                                ![j].full_log = <<>>, ![j].runs = @ + 1]
    /\ UNCHANGED fs /\ WorkerFrame

\* lines 76-80, 95: the process started.
PopenStarts(j) ==
    /\ worker[j].pc = "popen"
    /\ worker' = [worker EXCEPT ![j].pc = "reading", ![j].last_sent = LastSentInit,
                                ![j].error_lines = <<>>, ![j].full_output = <<>>,
                                ![j].runs = @ + 1]
    /\ UNCHANGED registryVars /\ UNCHANGED fs /\ WorkerFrame

\* A runner that publishes a percent for every progress line.
AdvancesAlways(mapped, last_sent) == TRUE

\* if mapped - last_sent >= step
AdvancesByStep(mapped, last_sent) == mapped - last_sent >= ProgressStep

\* The event lines 110-121 publish for one line, NoEvent when they publish none.
LineEvent(line, base, span, last_sent) ==
    IF line.pct # NoPercent
    THEN LET mapped == MappedPercent(line.pct, base, span)
         IN IF AdvancesByStep(mapped, last_sent)
            THEN _log_job("convert", mapped)
            ELSE _log_job("convert", NoPercent)
    ELSE IF ~line.blank THEN _log_job("convert", NoPercent) ELSE NoEvent

\* lines 104-121: one line of the process's output is read; the tool prints
\* a line of one of the shapes while fewer than budget lines were printed.
ReadLineOf(j, shapes, budget) ==
    /\ worker[j].pc = "reading"
    /\ Len(worker[j].output) < budget
    /\ \E shape \in shapes :
        LET w == worker[j]
            line == Line(w.idx, shape)
            e == LineEvent(line, w.percent_base, w.percent_span, w.last_sent)
        IN /\ worker' = [worker EXCEPT
                  ![j].full_output = Append(@, line),
                  ![j].output = Append(@, line),
                  ![j].error_lines =
                      IF IsErrorSignature(line) /\ Len(@) < ErrorLinesCap
                      THEN Append(@, line) ELSE @,
                  ![j].last_sent = IF e.percent # NoPercent THEN e.percent ELSE @]
           /\ IF e = NoEvent
              THEN UNCHANGED registryVars
              ELSE publish_event(j, e)
    /\ UNCHANGED fs /\ WorkerFrame

ReadLine(j) == ReadLineOf(j, LineShapes, MaxLines)

\* A runner that trusts the exit code alone.
RunSucceededByExitCode(rc, error_lines) == rc = 0

\* return rc == 0 and not error_lines, hint, "\n".join(full_output)
RunSucceeded(rc, error_lines) == rc = 0 /\ error_lines = <<>>

\* lines 122-127: end of output, p.wait() returns rc; the locals of the
\* finished call are gone.
ProcessExit(j) ==
    /\ worker[j].pc = "reading"
    /\ \E rc \in {0, 1} :
        worker' = [worker EXCEPT ![j].pc = "probe", ![j].rc = rc,
                                 ![j].cmd_ok = RunSucceeded(rc, worker[j].error_lines),
                                 ![j].full_log = worker[j].full_output,
                                 ![j].full_output = <<>>, ![j].error_lines = <<>>,
                                 ![j].last_sent = LastSentInit]
    /\ UNCHANGED registryVars /\ UNCHANGED fs /\ WorkerFrame

\* The running tool (-o job_dir) writes its markdown output, creating the
\* output directory when it is missing.
ToolWritesOutput(j) ==
    /\ worker[j].pc = "reading"
    /\ fs[j].md # worker[j].idx \/ ~fs[j].exists
    /\ fs' = [fs EXCEPT ![j] = [@ EXCEPT !.exists = TRUE, !.md = worker[j].idx,
                                         !.mtime = IF fs[j].md = 0 \/ ~fs[j].exists
                                                   THEN clock ELSE @]]
    /\ UNCHANGED registryVars /\ UNCHANGED worker /\ WorkerFrame

\* search_md(job_dir, stem): some *.md under job_dir.
search_md(d) == d.exists /\ (d.md # 0 \/ d.target)

\* A loop that never breaks.
AttemptNeverWins(cmd_ok, found) == FALSE

\* if cmd_ok and md_path
AttemptWins(cmd_ok, found) == cmd_ok /\ found

\* A worker that appends each failing attempt's output to the transcript.
ConcatTranscript(last_error_log, full_log) == last_error_log \o full_log

\* last_error_log = full_log
KeepTranscript(last_error_log, full_log) == full_log

\* A loop that ends with the first attempt.
NoMoreCandidates(idx, ncmds) == FALSE

\* for idx, cmd in enumerate(cmds): candidates remain after attempt idx.
MoreCandidates(idx, ncmds) == idx < ncmds

\* A loop that takes every second candidate.
SkipCandidate(idx) == idx + 2

\* enumerate(cmds): the candidate after attempt idx.
NextCandidate(idx) == idx + 1

\* lines 157-162; on the way to the next attempt cmd_ok, full_log and the
\* exit code are overwritten before they are read again.
ProbeResult(j) ==
    /\ worker[j].pc = "probe"
    /\ LET w == worker[j]
           good == IF w.succeeded = 0 /\ w.cmd_ok /\ fs[j].exists
                      /\ (fs[j].md # 0 \/ fs[j].target)
                   THEN w.idx ELSE w.succeeded
       IN
       IF AttemptWins(w.cmd_ok, search_md(fs[j]))
       THEN worker' = [worker EXCEPT ![j].ok = TRUE, ![j].succeeded = good,
                                     ![j].rc = 0, ![j].pc = "save_log"]
       ELSE worker' = [worker EXCEPT
                ![j].succeeded = good,
                ![j].last_error_log = KeepTranscript(w.last_error_log, w.full_log),
                ![j].full_log = <<>>, ![j].cmd_ok = FALSE, ![j].rc = 0,
                ![j].idx = IF MoreCandidates(w.idx, w.ncmds) THEN NextCandidate(w.idx) ELSE @,
                ![j].pc = IF MoreCandidates(w.idx, w.ncmds) THEN "attempt" ELSE "fail_log"]
    /\ UNCHANGED registryVars /\ UNCHANGED fs /\ WorkerFrame

\* open(job_dir / "conversion.log", "w") and f.write(text)
WriteConversionLog(j, text, nextpc) ==
    /\ IF ~fs[j].exists
       THEN /\ worker' = [worker EXCEPT ![j].pc = "died"]
            /\ UNCHANGED fs
       ELSE /\ fs' = [fs EXCEPT ![j].log = LogFile(text),
                                ![j].mtime = IF fs[j].log.present THEN @ ELSE clock]
            /\ worker' = [worker EXCEPT ![j].pc = nextpc]
    /\ UNCHANGED registryVars /\ WorkerFrame

\* lines 164-167
SaveErrorLog(j) ==
    /\ worker[j].pc = "fail_log"
    /\ WriteConversionLog(j, worker[j].last_error_log, "pub_error")

\* lines 169-179
PublishError(j) ==
    /\ worker[j].pc = "pub_error"
    /\ publish_event(j, ErrorEvent(FailureMessage(worker[j].last_error_log)))
    /\ worker' = [worker EXCEPT ![j].pc = "returned"]
    /\ UNCHANGED fs /\ WorkerFrame

\* lines 181-183
SaveSuccessLog(j) ==
    /\ worker[j].pc = "save_log"
    /\ WriteConversionLog(j, worker[j].full_log, "pub_collect")

\* line 185
PublishCollect(j) ==
    /\ worker[j].pc = "pub_collect"
    /\ publish_event(j, CollectEvent)
    /\ worker' = [worker EXCEPT ![j].pc = "collect"]
    /\ UNCHANGED fs /\ WorkerFrame

\* lines 186-191: the result is looked up again, in job_dir and then in the
\* tool's default directories under the temp dir (inTmp: one is found there),
\* and placed as <stem>.md; with no result found the function returns.
CollectOutput(j) ==
    /\ worker[j].pc = "collect"
    /\ \E inTmp \in BOOLEAN :
        IF search_md(fs[j]) \/ inTmp
        THEN /\ (inTmp => ~search_md(fs[j]))
             /\ fs' = [fs EXCEPT ![j] = [@ EXCEPT !.exists = TRUE, !.target = TRUE,
                          !.mtime = IF fs[j].target /\ fs[j].exists THEN @ ELSE clock]]
             /\ worker' = [worker EXCEPT ![j].pc = "pub_done", ![j].md_found = TRUE]
        ELSE /\ worker' = [worker EXCEPT ![j].pc = "returned"]
             /\ UNCHANGED fs
    /\ UNCHANGED registryVars /\ WorkerFrame

\* lines 192-196
PublishDone(j) ==
    /\ worker[j].pc = "pub_done"
    /\ publish_event(j, DoneEvent)
    /\ worker' = [worker EXCEPT ![j].pc = "returned"]
    /\ UNCHANGED fs /\ WorkerFrame

\* ------------------------------------------------------------------- time
Tick ==
    /\ clock < MaxClock
    /\ clock' = clock + 1
    /\ UNCHANGED registryVars /\ UNCHANGED <<worker, fs, job_ttl_hours, sweeper>>
    /\ UNCHANGED busVars

\* ------------------------------------------------------------ the sweeper
\* A sweeper that also takes a directory exactly ttl old.
ExpiredAtTtl(now, mtime, ttl_hours) ==
    (now - mtime) * SecondsPerHour >= ttl_hours * SecondsPerHour

\* A sweeper that takes every directory, whatever its age.
ExpiredAnyAge(now, mtime, ttl_hours) == TRUE

\* if (now - item.stat().st_mtime) > ttl_seconds
Expired(now, mtime, ttl_hours) ==
    (now - mtime) * SecondsPerHour > ttl_hours * SecondsPerHour

\* lines 199-203: now is read once, then output_root is listed.
SweepBegin ==
    /\ sweeper.pc = "idle"
    /\ \E d \in DirIds : fs[d].exists
    /\ sweeper' = [pc |-> "scan", now |-> clock, todo |-> {d \in DirIds : fs[d].exists},
                   swept |-> <<>>]
    /\ UNCHANGED registryVars /\ UNCHANGED <<worker, fs, clock, job_ttl_hours>>
    /\ UNCHANGED busVars

\* A sweep whose try/except is around the loop: the first failure ends it.
AbortOnFailure(todo, d, outcome) == IF outcome = "failed" THEN {} ELSE todo \ {d}

\* The directories the loop has yet to come to after directory d: the
\* try/except is inside the loop, which goes on whatever became of d.
RemainingAfter(todo, d, outcome) == todo \ {d}

\* The loop goes on to the next listed directory; after the last one
\* perform_cleanup returns and its locals are gone.
SweepAdvance(d, outcome) ==
    LET rest == RemainingAfter(sweeper.todo, d, outcome)
        entry == [dir |-> d, outcome |-> outcome, registered |-> d \in JOBS]
    IN sweeper' = IF rest = {} THEN IdleSweeper
                  ELSE [sweeper EXCEPT !.todo = rest, !.swept = Append(@, entry)]

\* lines 204-210 for one listed directory: "logs" is passed over; rmtree
\* either removes the directory or raises, and what it raises is swallowed.
SweepItem(d) ==
    /\ sweeper.pc = "scan"
    /\ d \in sweeper.todo
    /\ IF d # LogsDir /\ fs[d].exists /\ Expired(sweeper.now, fs[d].mtime, job_ttl_hours)
       THEN \E rmtreeRaises \in BOOLEAN :
            IF rmtreeRaises
            THEN /\ SweepAdvance(d, "failed")
                 /\ UNCHANGED <<JOBS, fs>>
            ELSE /\ LockFree
                 /\ SweepAdvance(d, "deleted")
                 /\ fs' = [fs EXCEPT ![d] = NoDir]
                 /\ JOBS' = JOBS \ {d}
       ELSE /\ SweepAdvance(d, "kept")
            /\ UNCHANGED <<JOBS, fs>>
    /\ UNCHANGED <<job, stageTrace, lastEvent, delivery, worker, clock, job_ttl_hours>>
    /\ UNCHANGED busVars

\* ------------------------------------------------------------------- Spec
\* No job is registered, no directory exists, and nobody subscribes.
InitRegistry ==
    /\ JOBS = {}
    /\ job = [j \in JobKeys |-> UnbuiltJobState]
    /\ stageTrace = [j \in JobKeys |-> <<>>]
    /\ lastEvent = [j \in JobKeys |-> NoEvent]
    /\ delivery = NoDelivery
    /\ worker = [j \in JobIds |-> IdleWorker]
    /\ fs = [d \in DirIds |-> NoDir]
    /\ clock = 0
    /\ sweeper = IdleSweeper
    /\ queues = [s \in QueueIds |-> <<>>]
    /\ reader = [s \in QueueIds |-> IdleReader]
    /\ serial = 0

Init ==
    /\ InitRegistry
    /\ job_ttl_hours \in {0, 1}
    /\ maxsize = QueueMaxsize

Next ==
    \E j \in JobIds :
        \/ convert_endpoint(j)
        \/ CallConvertJob(j)
        \/ ThreadRun(j)
        \/ PublishPrepare(j)
        \/ LogStarted(j)
        \/ PublishConvert(j)
        \/ LogAttempt(j)
        \/ CleanJobDir(j)
        \/ PopenFails(j)
        \/ PopenStarts(j)
        \/ ReadLine(j)
        \/ ProcessExit(j)
        \/ ToolWritesOutput(j)
        \/ ProbeResult(j)
        \/ SaveErrorLog(j)
        \/ PublishError(j)
        \/ SaveSuccessLog(j)
        \/ PublishCollect(j)
        \/ CollectOutput(j)
        \/ PublishDone(j)
        \/ SweepItem(j)
        \/ (Tick /\ j = j)
        \/ (SweepBegin /\ j = j)

Spec == Init /\ [][Next]_vars

\* ------------------------------------------------------------- SpecRunner
\* _run_cmd_stream(job_id, cmd, stage="convert", percent_base, percent_span)
\* is entered for a registered job in stage convert, with a base and a span
\* of these sets.  Spans 0..100 keep pct * span inside FloatShortfall's table.
RunnerBases == {-5, 0, 5, 50}
RunnerSpans == {0, 10, 80, 100}

ConvertingJobState ==
    ApplyEvent(ApplyEvent(QueuedJobState(0), PrepareEvent, 0), ConvertEvent, 0)

InitRunner ==
    /\ JOBS = JobIds
    /\ job = [j \in JobKeys |-> ConvertingJobState]
    /\ stageTrace = [j \in JobKeys |-> <<"queued", "prepare", "convert">>]
    /\ lastEvent = [j \in JobKeys |-> _log_job("convert", NoPercent)]
    /\ delivery = NoDelivery
    /\ \E b \in RunnerBases, sp \in RunnerSpans :
        worker = [j \in JobIds |-> [IdleWorker EXCEPT !.pc = "popen", !.ncmds = 3,
                     !.idx = 1, !.percent_base = b, !.percent_span = sp]]
    /\ fs = [d \in DirIds |-> IF d \in JobIds
                               THEN [NoDir EXCEPT !.exists = TRUE, !.source = TRUE]
                               ELSE NoDir]
    /\ clock = 0
    /\ job_ttl_hours = 1
    /\ sweeper = IdleSweeper
    /\ queues = [s \in QueueIds |-> <<>>]
    /\ maxsize = QueueMaxsize
    /\ reader = [s \in QueueIds |-> IdleReader]
    /\ serial = 0

RunnerReadLine(j) == ReadLineOf(j, RunnerLineShapes, MaxRunnerLines)

NextRunner ==
    \E j \in JobIds :
        \/ PopenFails(j)
        \/ PopenStarts(j)
        \/ RunnerReadLine(j)
        \/ ProcessExit(j)

SpecRunner == InitRunner /\ [][NextRunner]_vars

\* -------------------------------------------------------------- SpecSweep
\* Something is written into a directory of output_root (the worker's
\* conversion.log, the tool's output): its st_mtime becomes the current time.
TouchDir(d) ==
    /\ fs[d].exists
    /\ fs[d].mtime < clock
    /\ fs' = [fs EXCEPT ![d].mtime = clock]
    /\ UNCHANGED registryVars /\ UNCHANGED worker /\ UNCHANGED timeVars
    /\ UNCHANGED busVars

\* output_root holds the directories of two jobs, each with its key in _JOBS
\* or without (a job of an earlier life of the process has none), and "logs"
\* or not.
InitSweep ==
    /\ JOBS \in SUBSET (DirIds \ {LogsDir})
    /\ job = [j \in JobKeys |-> IF j \in JOBS THEN QueuedJobState(0) ELSE UnbuiltJobState]
    /\ stageTrace = [j \in JobKeys |-> IF j \in JOBS THEN <<"queued">> ELSE <<>>]
    /\ lastEvent = [j \in JobKeys |-> NoEvent]
    /\ delivery = NoDelivery
    /\ worker = [j \in JobIds |-> IdleWorker]
    /\ \E logs \in BOOLEAN :
        fs = [d \in DirIds |-> IF d = LogsDir THEN [NoDir EXCEPT !.exists = logs]
                               ELSE [NoDir EXCEPT !.exists = TRUE, !.source = TRUE]]
    /\ clock = 0
    /\ job_ttl_hours \in {0, 1}
    /\ sweeper = IdleSweeper
    /\ queues = [s \in QueueIds |-> <<>>]
    /\ maxsize = QueueMaxsize
    /\ reader = [s \in QueueIds |-> IdleReader]
    /\ serial = 0

NextSweep ==
    \E d \in DirIds :
        \/ (Tick /\ d = d)
        \/ TouchDir(d)
        \/ (SweepBegin /\ d = d)
        \/ SweepItem(d)

SpecSweep == InitSweep /\ [][NextSweep]_vars

\* ----------------------------------------------------------- SpecAttempts
\* _convert_job at line 147, the head of the loop over cmds: the job is
\* registered in stage convert at percent 5, job_dir holds the upload
\* (pdf: its suffix is .pdf), and three candidates are to be tried.
InitAttempts ==
    /\ JOBS = JobIds
    /\ job = [j \in JobKeys |-> ConvertingJobState]
    /\ stageTrace = [j \in JobKeys |-> <<"queued", "prepare", "convert">>]
    /\ lastEvent = [j \in JobKeys |-> ConvertEvent]
    /\ delivery = NoDelivery
    /\ \E pdf \in BOOLEAN :
        worker = [j \in JobIds |-> [IdleWorker EXCEPT !.pc = "attempt", !.ncmds = 3,
                     !.idx = 1, !.pdf = pdf]]
    /\ fs = [d \in DirIds |-> IF d \in JobIds
                               THEN [NoDir EXCEPT !.exists = TRUE, !.source = TRUE]
                               ELSE NoDir]
    /\ clock = 0
    /\ job_ttl_hours = 1
    /\ sweeper = IdleSweeper
    /\ queues = [s \in QueueIds |-> <<>>]
    /\ maxsize = QueueMaxsize
    /\ reader = [s \in QueueIds |-> IdleReader]
    /\ serial = 0

AttemptReadLine(j) == ReadLineOf(j, AttemptLineShapes, MaxAttemptLines)

NextAttempts ==
    \E j \in JobIds :
        \/ LogAttempt(j)
        \/ CleanJobDir(j)
        \/ PopenFails(j)
        \/ PopenStarts(j)
        \/ AttemptReadLine(j)
        \/ ProcessExit(j)
        \/ ToolWritesOutput(j)
        \/ ProbeResult(j)

SpecAttempts == InitAttempts /\ [][NextAttempts]_vars

\* ---------------------------------------------------------------- SpecBus
\* The events the caller of publish_event passes: a log event of stage
\* convert and the two terminal events.
BusEventShapes ==
    {_log_job("convert", NoPercent), DoneEvent, ErrorEvent("check_logs")}

\* Some thread calls publish_event(job_id, event), for a registered job or
\* not, with an event of one of the shapes, while fewer than budget calls
\* and duplicate submissions were made.
PublishOf(j, shapes, budget) ==
    /\ serial < budget
    /\ \E shape \in shapes :
        publish_event(j, [shape EXCEPT !.serial = serial + 1])
    /\ serial' = serial + 1
    /\ UNCHANGED <<worker, fs, queues, maxsize, reader>> /\ UNCHANGED timeVars

Publish(j) == PublishOf(j, BusEventShapes, MaxPublishes)

\* JobState as convert_endpoint builds it for a duplicate, lines 405-418.
DoneJobState(now, md) ==
    [stage |-> "done", percent |-> 100, ok |-> "true", error |-> Absent,
     md_path |-> md, updated_at |-> now, subscribers |-> <<>>]

\* The job_events calls that hold job j's JobState object.
HoldsState(s, j) ==
    /\ reader[s].job = j
    /\ reader[s].pc \in {"got", "subscribed", "read_percent", "read_ok", "streaming"}
    /\ ~reader[s].orphan

\* convert_endpoint, lines 374-428: the reports table holds a row of job j
\* that matches the upload (by hash, or by name and size), and a new JobState
\* in stage done takes j's place in _JOBS, whatever was registered there;
\* mdExists is md_path.exists().  The job_events calls that hold the replaced
\* object keep it, as the writes made so far left it; a generator past its
\* snapshot reads no field of it again.
convert_endpoint_dedup(j) ==
    /\ serial < MaxPublishes
    /\ LockFree
    /\ \E mdExists \in BOOLEAN :
        job' = [job EXCEPT ![j] = DoneJobState(clock, IF mdExists THEN "target" ELSE Absent)]
    /\ JOBS' = JOBS \cup {j}
    /\ stageTrace' = [stageTrace EXCEPT ![j] = AppendStage(@, "done")]
    /\ serial' = serial + 1
    /\ reader' = [s \in QueueIds |->
                     IF HoldsState(s, j)
                     THEN [reader[s] EXCEPT !.orphan = TRUE,
                              !.st = IF reader[s].pc = "streaming" THEN @ ELSE job[j],
                              !.seen = IF reader[s].pc \in {"got", "subscribed"}
                                       THEN serial ELSE @]
                     ELSE reader[s]]
    /\ UNCHANGED <<lastEvent, delivery, worker, fs, queues, maxsize>>
    /\ UNCHANGED timeVars

BusFrame == UNCHANGED <<JOBS, stageTrace, lastEvent, delivery, worker, fs, maxsize, serial>>
            /\ UNCHANGED timeVars

\* job_events, lines 322-323: get_job(job_id) under the lock; 404 without a job.
job_events(s, j) ==
    /\ reader[s].pc = "none"
    /\ j \in JOBS
    /\ LockFree
    /\ reader' = [reader EXCEPT ![s] = [IdleReader EXCEPT !.pc = "got", !.job = j]]
    /\ UNCHANGED <<job, queues>> /\ BusFrame

\* lines 325-326: a queue is built and appended to st.subscribers under the
\* lock, and the response is returned.
Subscribe(s) ==
    /\ reader[s].pc = "got"
    /\ LockFree
    /\ job' = IF reader[s].orphan THEN job
              ELSE [job EXCEPT ![reader[s].job].subscribers = Append(@, s)]
    /\ queues' = [queues EXCEPT ![s] = <<>>]
    /\ reader' = [reader EXCEPT ![s].pc = "subscribed", ![s].since = serial]
    /\ BusFrame

\* The JobState object the job_events call holds.
HeldState(s) == IF reader[s].orphan THEN reader[s].st ELSE job[reader[s].job]

\* line 329, first read of the snapshot's dict display: st.stage.
SnapshotReadStage(s) ==
    /\ reader[s].pc = "subscribed"
    /\ reader' = [reader EXCEPT ![s].pc = "read_percent",
                                ![s].stage = HeldState(s).stage,
                                ![s].seen = IF reader[s].orphan THEN @ ELSE serial]
    /\ UNCHANGED <<job, queues>> /\ BusFrame

\* line 329, second read: st.percent.
SnapshotReadPercent(s) ==
    /\ reader[s].pc = "read_percent"
    /\ reader' = [reader EXCEPT ![s].pc = "read_ok",
                                ![s].percent = HeldState(s).percent]
    /\ UNCHANGED <<job, queues>> /\ BusFrame

\* A generator that goes to its queue without yielding a snapshot.
SnapshotSkipped(s) ==
    /\ reader[s].pc = "read_ok"
    /\ reader' = [reader EXCEPT ![s].pc = "streaming", ![s].st = UnbuiltJobState]
    /\ UNCHANGED <<job, queues>> /\ BusFrame

\* line 329, third read, st.ok, and the yield of the snapshot.
SnapshotYield(s) ==
    /\ reader[s].pc = "read_ok"
    /\ LET r == reader[s] IN
       reader' = [reader EXCEPT ![s].pc = "streaming", ![s].st = UnbuiltJobState,
                     ![s].received = Append(@, Payload(r.job,
                                         SnapshotItem(r.stage, r.percent, HeldState(s).ok)))]
    /\ UNCHANGED <<job, queues>> /\ BusFrame

\* lines 330-331: q.get(timeout=15) returns the oldest item, which is yielded.
ReaderGet(s) ==
    /\ reader[s].pc = "streaming"
    /\ queues[s] # <<>>
    /\ reader' = [reader EXCEPT ![s].received = Append(@, Head(queues[s]))]
    /\ queues' = [queues EXCEPT ![s] = QueueRest(@)]
    /\ UNCHANGED job /\ BusFrame

\* A generator that leaves its queue in st.subscribers.
KeepSub(subs, s) == subs

\* st.subscribers.remove(q)
RemoveSub(subs, s) == SelectSeq(subs, LAMBDA x : x # s)

\* lines 333-335: the generator is closed at a yield; under the lock the
\* queue leaves st.subscribers when st is a registered record and holds it.
Disconnect(s) ==
    /\ reader[s].pc = "streaming"
    /\ LockFree
    /\ LET j == reader[s].job IN
       job' = IF j \in JOBS /\ ~reader[s].orphan
              THEN [job EXCEPT ![j].subscribers = RemoveSub(@, s)] ELSE job
    /\ reader' = [reader EXCEPT ![s].pc = "closed"]
    /\ UNCHANGED queues /\ BusFrame

InitBus ==
    /\ InitRegistry
    /\ job_ttl_hours = 1
    /\ maxsize \in 1..MaxCap

NextBus ==
    \E j \in JobIds, s \in SubIds :
        \/ convert_endpoint(j)
        \/ convert_endpoint_dedup(j)
        \/ Publish(j)
        \/ (DeliverPut /\ j = j)
        \/ (DeliverDiscard /\ j = j)
        \/ (DeliverRetry /\ j = j)
        \/ job_events(s, j)
        \/ Subscribe(s)
        \/ SnapshotReadStage(s)
        \/ SnapshotReadPercent(s)
        \/ SnapshotYield(s)
        \/ ReaderGet(s)
        \/ Disconnect(s)

SpecBus == InitBus /\ [][NextBus]_vars

\* ------------------------------------------------------------- SpecFanout
\* The events the workers pass: a log event of stage convert and the done event.
FanoutEventShapes == {_log_job("convert", NoPercent), DoneEvent}

\* One list of subscribers shared by the records of all jobs.
SharedSubscribers(j, at, first) ==
    IF first = "s1" THEN <<"s1", "s2">> ELSE <<"s2", "s1">>

\* The queues of st.subscribers, in the order the job_events calls appended them.
SubscribersOf(j, at, first) ==
    SelectSeq(IF first = "s1" THEN <<"s1", "s2">> ELSE <<"s2", "s1">>,
              LAMBDA s : at[s] = j)

\* Two jobs were registered and are converting, and two job_events calls, for
\* the same job or not, have yielded their snapshots and wait on their
\* queues; since then the sweeper may have deleted the directory of either
\* job and its key in _JOBS (swept).
InitFanout ==
    /\ \E swept \in SUBSET JobKeys :
        /\ JOBS = JobKeys \ swept
        /\ fs = [d \in DirIds |-> IF d \in JobKeys \ swept
                                   THEN [NoDir EXCEPT !.exists = TRUE, !.source = TRUE]
                                   ELSE NoDir]
    /\ \E at \in [QueueIds -> JobKeys], first \in QueueIds :
        /\ job = [j \in JobKeys |->
                     [ConvertingJobState EXCEPT !.subscribers = SubscribersOf(j, at, first)]]
        /\ reader = [s \in QueueIds |->
                        [IdleReader EXCEPT !.pc = "streaming", !.job = at[s],
                            !.received = <<Payload(at[s],
                                SnapshotItem("convert", ConvertPercentBase, "null"))>>]]
    /\ stageTrace = [j \in JobKeys |-> <<"queued", "prepare", "convert">>]
    /\ lastEvent = [j \in JobKeys |-> ConvertEvent]
    /\ delivery = NoDelivery
    /\ worker = [j \in JobIds |-> [IdleWorker EXCEPT !.pc = "attempt", !.ncmds = 3, !.idx = 1]]
    /\ clock = 0
    /\ job_ttl_hours = 1
    /\ sweeper = IdleSweeper
    /\ queues = [s \in QueueIds |-> <<>>]
    /\ maxsize \in 1..MaxCap
    /\ serial = 0

FanoutPublish(j) == PublishOf(j, FanoutEventShapes, MaxFanoutPublishes)

NextFanout ==
    \E j \in JobKeys, s \in QueueIds :
        \/ FanoutPublish(j)
        \/ (DeliverPut /\ j = j)
        \/ (DeliverDiscard /\ j = j)
        \/ (DeliverRetry /\ j = j)
        \/ ReaderGet(s)
        \/ Disconnect(s)

SpecFanout == InitFanout /\ [][NextFanout]_vars

\* ----------------------------------------------------------- SpecSnapshot
\* _convert_job at line 181: the first candidate's run won, its markdown
\* file is in job_dir, and the job is registered in stage convert.
InitSnapshot ==
    /\ JOBS = JobIds
    /\ job = [j \in JobKeys |-> IF j \in JobIds THEN ConvertingJobState ELSE UnbuiltJobState]
    /\ stageTrace = [j \in JobKeys |->
                        IF j \in JobIds THEN <<"queued", "prepare", "convert">> ELSE <<>>]
    /\ lastEvent = [j \in JobKeys |->
                       IF j \in JobIds THEN _log_job("convert", NoPercent) ELSE NoEvent]
    /\ delivery = NoDelivery
    /\ worker = [j \in JobIds |-> [IdleWorker EXCEPT !.pc = "save_log", !.ncmds = 3,
                     !.idx = 1, !.runs = 1, !.ok = TRUE, !.cmd_ok = TRUE, !.succeeded = 1]]
    /\ fs = [d \in DirIds |-> IF d \in JobIds
                               THEN [NoDir EXCEPT !.exists = TRUE, !.source = TRUE, !.md = 1]
                               ELSE NoDir]
    /\ clock = 0
    /\ job_ttl_hours = 1
    /\ sweeper = IdleSweeper
    /\ queues = [s \in QueueIds |-> <<>>]
    /\ maxsize \in 1..MaxCap
    /\ reader = [s \in QueueIds |-> IdleReader]
    /\ serial = 0

NextSnapshot ==
    \E j \in JobIds, s \in SubIds :
        \/ SaveSuccessLog(j)
        \/ PublishCollect(j)
        \/ CollectOutput(j)
        \/ PublishDone(j)
        \/ (DeliverPut /\ j = j)
        \/ (DeliverDiscard /\ j = j)
        \/ (DeliverRetry /\ j = j)
        \/ job_events(s, j)
        \/ Subscribe(s)
        \/ SnapshotReadStage(s)
        \/ SnapshotReadPercent(s)
        \/ SnapshotYield(s)
        \/ ReaderGet(s)
        \/ Disconnect(s)

SpecSnapshot == InitSnapshot /\ [][NextSnapshot]_vars

\* --------------------------------------------------------- SpecUnregister
\* perform_cleanup's loop body in the two steps the interpreter takes it in:
\* lines 205-207, stat and rmtree outside any lock, and lines 208-209, the
\* removal of the key once _JOBS_LOCK is acquired.  SweepItem is the two
\* taken together, which is what they are when no other thread runs between.
SweepRmtree(d) ==
    /\ sweeper.pc = "scan"
    /\ d \in sweeper.todo
    /\ IF d # LogsDir /\ fs[d].exists /\ Expired(sweeper.now, fs[d].mtime, job_ttl_hours)
       THEN \E rmtreeRaises \in BOOLEAN :
            IF rmtreeRaises
            THEN /\ SweepAdvance(d, "failed")
                 /\ UNCHANGED fs
            ELSE /\ fs' = [fs EXCEPT ![d] = NoDir]
                 /\ sweeper' = [sweeper EXCEPT !.pc = "unregister",
                        !.swept = Append(@, [dir |-> d, outcome |-> "deleted",
                                             registered |-> d \in JOBS])]
       ELSE /\ SweepAdvance(d, "kept")
            /\ UNCHANGED fs
    /\ UNCHANGED <<JOBS, job, stageTrace, lastEvent, delivery, worker, clock, job_ttl_hours>>
    /\ UNCHANGED busVars

\* with _JOBS_LOCK: if item.name in _JOBS: del _JOBS[item.name], lines 208-209
SweepUnregister ==
    /\ sweeper.pc = "unregister"
    /\ LockFree
    /\ LET d == sweeper.swept[Len(sweeper.swept)].dir
           rest == RemainingAfter(sweeper.todo, d, "deleted")
       IN /\ JOBS' = JOBS \ {d}
          /\ sweeper' = IF rest = {} THEN IdleSweeper
                        ELSE [sweeper EXCEPT !.pc = "scan", !.todo = rest]
    /\ UNCHANGED <<job, stageTrace, lastEvent, delivery, worker, fs, clock, job_ttl_hours>>
    /\ UNCHANGED busVars

\* _convert_job at line 181 as in InitSnapshot, with the cleanup thread of
\* main.py alive; output_root may hold the directory of a job of an earlier
\* life of the process, and "logs".
InitUnregister ==
    /\ JOBS = JobIds
    /\ job = [j \in JobKeys |-> IF j \in JobIds THEN ConvertingJobState ELSE UnbuiltJobState]
    /\ stageTrace = [j \in JobKeys |->
                        IF j \in JobIds THEN <<"queued", "prepare", "convert">> ELSE <<>>]
    /\ lastEvent = [j \in JobKeys |->
                       IF j \in JobIds THEN _log_job("convert", NoPercent) ELSE NoEvent]
    /\ delivery = NoDelivery
    /\ worker = [j \in JobIds |-> [IdleWorker EXCEPT !.pc = "save_log", !.ncmds = 3,
                     !.idx = 1, !.runs = 1, !.ok = TRUE, !.cmd_ok = TRUE, !.succeeded = 1]]
    /\ \E others \in SUBSET (DirIds \ JobIds) :
        fs = [d \in DirIds |->
                 IF d \in JobIds THEN [NoDir EXCEPT !.exists = TRUE, !.source = TRUE, !.md = 1]
                 ELSE IF d \in others THEN [NoDir EXCEPT !.exists = TRUE, !.source = d # LogsDir]
                 ELSE NoDir]
    /\ clock = 0
    /\ job_ttl_hours \in {0, 1}
    /\ sweeper = IdleSweeper
    /\ queues = [s \in QueueIds |-> <<>>]
    /\ maxsize = QueueMaxsize
    /\ reader = [s \in QueueIds |-> IdleReader]
    /\ serial = 0

NextUnregister ==
    \E j \in JobIds, d \in DirIds :
        \/ SaveSuccessLog(j)
        \/ PublishCollect(j)
        \/ CollectOutput(j)
        \/ PublishDone(j)
        \/ (Tick /\ j = j)
        \/ (SweepBegin /\ j = j)
        \/ SweepRmtree(d)
        \/ (SweepUnregister /\ j = j)

SpecUnregister == InitUnregister /\ [][NextUnregister]_vars

\* ================================================================ properties
Range(f) == {f[i] : i \in DOMAIN f}
IsPrefix(s, t) == Len(s) <= Len(t) /\ \A i \in 1..Len(s) : s[i] = t[i]

DonePath == <<"queued", "prepare", "convert", "collect_output", "done">>
ErrorPath == <<"queued", "prepare", "convert", "error">>

\* C1 (Spec): the stage values a job record takes, in order and without
\* repeats, are a prefix of queued, prepare, convert, collect_output, done or
\* of queued, prepare, convert, error; every change of stage by a progress or
\* a log event of the worker is a step forward on one of the two paths.
C1_StagePath ==
    \A j \in JobIds : IsPrefix(stageTrace[j], DonePath) \/ IsPrefix(stageTrace[j], ErrorPath)

\* A job went the whole success path, log events of a run's output included.
C1_Witness ==
    \E j \in JobIds : stageTrace[j] = DonePath /\ worker[j].output # <<>>

\* C2 (SpecBus): once a job's stage is done or error, no later publish_event
\* changes its stage, its ok or its error.
C2_TerminalSticky ==
    [][\A j \in JobIds :
          job[j].stage \in TerminalStages =>
              /\ job'[j].stage = job[j].stage
              /\ job'[j].ok = job[j].ok
              /\ job'[j].error = job[j].error]_vars

\* C3 (Spec): the worker of every job the submission registered runs until
\* the job is done or in error: a worker thread that has ended leaves its job
\* in a terminal stage.
C3_WorkerEndsTerminal ==
    \A j \in JobIds :
        worker[j].pc \in {"returned", "died"} => job[j].stage \in TerminalStages

\* C4 (Spec): the job's percent and the percent of every published event
\* that carries one lie in 0..100, and an event whose stage is done or error
\* carries percent 100.
C4_PercentRange ==
    \A j \in JobIds :
        /\ job[j].percent \in 0..100
        /\ lastEvent[j].percent # NoPercent => lastEvent[j].percent \in 0..100
        /\ lastEvent[j].stage \in TerminalStages => lastEvent[j].percent = 100

\* The tool printed "999%" in the winning run and the job ended with the done event.
C4_Witness ==
    \E j \in JobIds :
        /\ lastEvent[j] = DoneEvent
        /\ job[j].percent = 100
        /\ \E i \in 1..Len(worker[j].full_log) : worker[j].full_log[i].pct = 999

\* ------------------------------------------------------------------- C5
\* The line read last in the running call carries a tool percentage p in
\* 0..100 and the event published for it carries a percent.
PublishedForLine(j) ==
    LET out == worker[j].full_output IN
    /\ worker[j].pc = "reading"
    /\ out # <<>>
    /\ out[Len(out)].pct \in 0..100
    /\ lastEvent[j].percent # NoPercent

LastPct(j) == worker[j].full_output[Len(worker[j].full_output)].pct

ClampTo99(x) == IF x < 0 THEN 0 ELSE IF x > 99 THEN 99 ELSE x

\* floor(p * span / 100)
ExactFloor(p, span) == (p * span) \div 100

\* The integers nearest to p * span / 100: one, or two at a tie.
NearestIntegers(p, span) ==
    LET r == (p * span) % 100 IN
    IF r < 50 THEN {ExactFloor(p, span)}
    ELSE IF r > 50 THEN {ExactFloor(p, span) + 1}
    ELSE {ExactFloor(p, span), ExactFloor(p, span) + 1}

\* C5 as stated (SpecRunner): the published percent is percent_base plus
\* p/100 * percent_span rounded to the nearest integer, clamped to 0..99, and
\* "42%" with base 5 and span 80 is published as 39.
C5_RoundedMapping ==
    \A j \in JobIds :
        PublishedForLine(j) =>
            LET p == LastPct(j)
                b == worker[j].percent_base
                sp == worker[j].percent_span
            IN /\ \E r \in NearestIntegers(p, sp) : lastEvent[j].percent = ClampTo99(b + r)
               /\ (p = 42 /\ b = 5 /\ sp = 80 => lastEvent[j].percent = 39)

\* C5 amended (SpecRunner): the published percent is percent_base plus the
\* product p/100 * percent_span truncated, never rounded up: the floor of the
\* exact product, and one less at the pairs where the double product falls
\* just short of it; then clamped to 0..99.  "42%" with base 5 and span 80 is
\* published as 38.
C5_TruncatedMapping ==
    \A j \in JobIds :
        PublishedForLine(j) =>
            LET p == LastPct(j)
                b == worker[j].percent_base
                sp == worker[j].percent_span
                short == IF <<p, sp>> \in FloatShortfall THEN 1 ELSE 0
            IN /\ lastEvent[j].percent = ClampTo99(b + ExactFloor(p, sp) - short)
               /\ (p = 42 /\ b = 5 /\ sp = 80 => lastEvent[j].percent = 38)

\* "42%" was read with base 5 and span 80 and published as 38.
C5_Witness ==
    \E j \in JobIds :
        /\ PublishedForLine(j)
        /\ LastPct(j) = 42
        /\ worker[j].percent_base = 5 /\ worker[j].percent_span = 80
        /\ lastEvent[j].percent = 38

\* ------------------------------------------------------------------- C6
\* C6 (Spec): once a candidate's run reported success with a result file in
\* the job directory, no later candidate is run and no error event is
\* published, however many candidates failed before it; and when the worker's
\* final lookup finds the result, the last event is the success event (stage
\* done, ok true, percent 100) and the job record shows it.
C6_SuccessAfterFailures ==
    \A j \in JobIds :
        worker[j].succeeded # 0 =>
            /\ lastEvent[j].stage # "error"
            /\ job[j].stage # "error"
            /\ worker[j].pc \notin {"attempt", "clean", "popen", "reading", "probe",
                                    "fail_log", "pub_error"}
            /\ worker[j].pc = "returned" /\ worker[j].md_found =>
                   /\ lastEvent[j] = DoneEvent
                   /\ j \in JOBS =>
                          /\ job[j].stage = "done"
                          /\ job[j].ok = "true"
                          /\ job[j].percent = 100

\* The first candidates failed, a later one succeeded, and the job is done.
C6_Witness ==
    \E j \in JobIds :
        /\ worker[j].succeeded > 1
        /\ worker[j].pc = "returned"
        /\ lastEvent[j] = DoneEvent
        /\ j \in JOBS /\ job[j].stage = "done"

\* ------------------------------------------------------------------- C7
\* The lines attempt att printed, in order.
LinesOf(out, att) == SelectSeq(out, LAMBDA l : l.att = att)

\* C7 as stated (Spec): conversion.log is in the job directory only when the
\* job failed as a whole, and it then holds exactly the output of the last
\* failing attempt; when a candidate won, no transcript file is written.
C7_TranscriptOnlyOnFailure ==
    \A j \in JobIds :
        fs[j].log.present =>
            /\ ~worker[j].ok
            /\ fs[j].log.text = LinesOf(worker[j].output, worker[j].ncmds)

\* C7 amended (Spec): conversion.log is written after the candidate loop on
\* failure and on success alike.  On failure it holds exactly the output of
\* the last attempt (of no earlier attempt, and no concatenation); on success
\* it holds exactly the output of the winning attempt.
C7_TranscriptOfFinalAttempt ==
    \A j \in JobIds :
        fs[j].log.present =>
            /\ worker[j].pc \in {"pub_error", "pub_collect", "collect", "pub_done",
                                 "returned"}
            /\ ~worker[j].ok => worker[j].idx = worker[j].ncmds
            /\ worker[j].ok => worker[j].idx = worker[j].succeeded
            /\ fs[j].log.text = LinesOf(worker[j].output, worker[j].idx)

\* A candidate won and its output is in conversion.log.
C7_Witness ==
    \E j \in JobIds :
        /\ fs[j].log.present
        /\ worker[j].ok
        /\ fs[j].log.text # <<>>

\* ------------------------------------------------------------------- C8
\* The subscriber's queue is in the subscribers of a registered job's record.
Attached(s) == \E j \in JOBS : s \in Range(job[j].subscribers)

\* The number of published events the subscriber's reader took from the queue.
Consumed(s) ==
    Cardinality({i \in 1..Len(reader[s].received) : reader[s].received[i].type # "snapshot"})

\* C8 (SpecBus): a subscriber's queue never holds more than maxsize items;
\* and when n events were published since the subscription, the reader took
\* none of them and no publish_event call is under way, the queue holds the
\* latest min(n, maxsize) of them in publish order: the oldest n - maxsize are
\* the ones discarded.
C8_DropOldest ==
    \A s \in SubIds :
        /\ Len(queues[s]) <= maxsize
        /\ Attached(s) /\ LockFree /\ Consumed(s) = 0 =>
               LET n == serial - reader[s].since
                   k == IF n <= maxsize THEN n ELSE maxsize
               IN /\ Len(queues[s]) = k
                  /\ \A i \in 1..k : queues[s][i].serial = serial - k + i

\* More events than the queue holds were published and none was read.
C8_Witness ==
    \E s \in SubIds :
        /\ Attached(s) /\ LockFree /\ Consumed(s) = 0
        /\ serial - reader[s].since > maxsize
        /\ Len(queues[s]) = maxsize

\* ------------------------------------------------------------------- C9
\* perform_cleanup's loop takes a step for job j's directory.
SweptNow(j) == sweeper.pc = "scan" /\ j \in sweeper.todo /\ sweeper' # sweeper

\* The directory's last modification is more than the TTL before the time
\* the sweep read at its start.
OlderThanTtl(j) == fs[j].exists /\ sweeper.now - fs[j].mtime > job_ttl_hours

Untouched(j) == fs'[j] = fs[j] /\ JOBS' = JOBS

\* C9 as stated (Spec): a sweep with TTL 0 that comes to a job whose
\* updated_at is in the past deletes the job's directory and removes its
\* registry entry; a sweep that comes to a directory that is not older than
\* the TTL leaves directory and entry as they are.
C9_SweepDeletesPastJobs ==
    [][\A j \in JobIds :
          SweptNow(j) =>
              /\ job_ttl_hours = 0 /\ j \in JOBS /\ job[j].updated_at < sweeper.now =>
                     ~fs'[j].exists /\ j \notin JOBS'
              /\ ~OlderThanTtl(j) => Untouched(j)]_vars

\* C9 amended (Spec): the sweep goes by the directory's modification time and
\* not by the job's updated_at.  A directory older than the TTL is deleted
\* together with the registry entry, or, when the recursive delete raises,
\* both are left as they are; a directory that is not older than the TTL is
\* left with its registry entry as they are.
C9_SweepByDirectoryAge ==
    [][\A j \in JobIds :
          SweptNow(j) =>
              IF OlderThanTtl(j)
              THEN (~fs'[j].exists /\ j \notin JOBS') \/ Untouched(j)
              ELSE Untouched(j)]_vars

\* With TTL 0 a sweep deleted a submitted job's directory and registry entry.
C9_Witness ==
    \E j \in JobIds :
        /\ job_ttl_hours = 0
        /\ job[j].stage # "unregistered"
        /\ ~fs[j].exists
        /\ j \notin JOBS

\* ------------------------------------------------------------------ C10
\* C10 (SpecBus): the first item a subscriber's reader receives is a snapshot
\* with a stage the job had, a percent and an ok, equal to the registered
\* record's stage, percent and ok when the record was not written or replaced
\* since the subscription; every later item is an event published after the
\* subscription, and nothing is received before the snapshot.
C10_SnapshotFirst ==
    \A s \in SubIds :
        LET r == reader[s].received
            j == reader[s].job
        IN /\ reader[s].pc \in {"none", "got", "subscribed", "read_percent", "read_ok"} => r = <<>>
           /\ r # <<>> =>
                  /\ r[1].type = "snapshot"
                  /\ r[1].stage \in Range(stageTrace[j])
                  /\ r[1].percent \in 0..100
                  /\ r[1].ok \in {"null", "true", "false"}
                  /\ \A i \in 2..Len(r) :
                         r[i].type # "snapshot" /\ r[i].serial > reader[s].since
           /\ Len(r) = 1 /\ serial = reader[s].since /\ ~reader[s].orphan =>
                  /\ r[1].stage = job[j].stage
                  /\ r[1].percent = job[j].percent
                  /\ r[1].ok = job[j].ok

\* A subscriber who came after some events received the snapshot and then an event.
C10_Witness ==
    \E s \in SubIds :
        /\ reader[s].since > 0
        /\ Len(reader[s].received) >= 2
        /\ reader[s].received[1].type = "snapshot"
        /\ reader[s].received[2].type # "snapshot"

\* ------------------------------------------------------------------ C11
\* The events a subscriber's reader took, in the order it took them.
ReceivedEvents(s) == SelectSeq(reader[s].received, LAMBDA e : e.type # "snapshot")

StrictlyIncreasing(seq) == \A i \in 1..Len(seq) - 1 : seq[i].serial < seq[i + 1].serial

\* C11 (SpecBus): the events a subscriber received, followed by those waiting
\* in its queue, are in publish order: their positions among the publish_event
\* calls strictly increase, so no event is received twice or before an event
\* published earlier, discards or not.
C11_PublishOrder ==
    \A s \in SubIds : StrictlyIncreasing(ReceivedEvents(s) \o queues[s])

\* The reader received two events between which an event was discarded.
C11_Witness ==
    \E s \in SubIds :
        LET r == ReceivedEvents(s) IN
        /\ Len(r) >= 2
        /\ r[2].serial > r[1].serial + 1

\* ------------------------------------------------------------------ C12
\* C12 (SpecBus): while publish_event puts an event into a subscriber's queue
\* or discards one from it, _JOBS_LOCK is not held.
C12_DeliveryOutsideLock ==
    delivery.todo # <<>> => LockFree

\* ------------------------------------------------------------------ C13
\* The run's output holds a line with an error signature.
HasErrorLine(out) == \E i \in 1..Len(out) : IsErrorSignature(out[i])

\* C13 (SpecRunner): when the process's output ends and p.wait() returns, the
\* run is reported as a success exactly when the exit code is 0 and no line of
\* the run's output carried an error signature.
C13_SuccessIffCleanExit ==
    [][\A j \in JobIds :
          worker[j].pc = "reading" /\ worker'[j].pc = "probe" =>
              (worker'[j].cmd_ok <=>
                  worker'[j].rc = 0 /\ ~HasErrorLine(worker[j].full_output))]_vars

\* A run ended with exit code 0 and an error-signature line, reported as failure.
C13_Witness ==
    \E j \in JobIds :
        /\ worker[j].pc = "probe"
        /\ worker[j].rc = 0
        /\ HasErrorLine(worker[j].full_log)
        /\ ~worker[j].cmd_ok

\* ------------------------------------------------------------------ C14
\* The attempt whose result is probed did not win.
AttemptLost(j) == ~(worker[j].cmd_ok /\ search_md(fs[j]))

\* C14 (Spec): when the error event is published, every candidate was run and
\* none won; and the probe of an attempt that did not win, with candidates
\* remaining, publishes nothing and leads to the next candidate.
C14_ErrorOnlyAfterExhaustion ==
    /\ [](\A j \in JobIds :
            lastEvent[j].stage = "error" \/ worker[j].pc \in {"fail_log", "pub_error"} =>
                /\ worker[j].runs = worker[j].ncmds
                /\ worker[j].succeeded = 0
                /\ ~worker[j].ok)
    /\ [][\A j \in JobIds :
            /\ worker[j].pc = "probe" /\ worker'[j] # worker[j]
            /\ AttemptLost(j) /\ worker[j].idx < worker[j].ncmds
            => /\ worker'[j].pc = "attempt"
               /\ worker'[j].idx = worker[j].idx + 1
               /\ lastEvent'[j] = lastEvent[j]
               /\ job'[j] = job[j]]_vars

\* All three candidates were run, the last one exiting with a failure, and
\* the error event was published.
C14_Witness ==
    \E j \in JobIds :
        /\ lastEvent[j].stage = "error"
        /\ lastEvent[j].ok = "false"
        /\ worker[j].runs = 3 /\ worker[j].ncmds = 3
        /\ j \in JOBS /\ job[j].stage = "error"

\* ------------------------------------------------------------------ C15
\* C15 (Spec): the runs of a job's candidates are made in list order: the k-th
\* run is the k-th candidate's, it starts while no process of the job is
\* running and no earlier candidate has won; once a candidate has won, it is
\* the last one that was run.
C15_SequentialInOrder ==
    /\ [](\A j \in JobIds :
            /\ worker[j].runs <= worker[j].ncmds
            /\ worker[j].pc = "reading" => worker[j].idx = worker[j].runs
            /\ worker[j].succeeded # 0 => worker[j].runs = worker[j].succeeded)
    /\ [][\A j \in JobIds :
            worker'[j].runs # worker[j].runs /\ worker[j].pc # "spawned" =>
                /\ worker'[j].runs = worker[j].runs + 1
                /\ worker[j].idx = worker'[j].runs
                /\ worker[j].pc = "popen"
                /\ worker[j].succeeded = 0]_vars

\* The second of three candidates won after the first failed; the third was not run.
C15_Witness ==
    \E j \in JobIds :
        /\ worker[j].ncmds = 3
        /\ worker[j].succeeded = 2
        /\ worker[j].runs = 2
        /\ worker[j].pc = "returned"

\* ------------------------------------------------------------------ C16
\* perform_cleanup's loop comes to directory d in this step.
SweptDir(d) == sweeper.pc = "scan" /\ d \in sweeper.todo /\ d \notin sweeper'.todo

\* The delete of a directory the loop came to before raised.
FailedBefore == \E i \in 1..Len(sweeper.swept) : sweeper.swept[i].outcome = "failed"

\* What the step did to directory d and its key in _JOBS.
DirDeleted(d) == ~fs'[d].exists /\ d \notin JOBS'
DirUntouched(d) == fs'[d] = fs[d] /\ (d \in JOBS' <=> d \in JOBS)

\* C16 (SpecSweep): a delete that raised does not end the sweep.  The loop
\* comes to one listed directory at a time, touches no other, and goes on
\* while listed directories remain; and a job directory older than the TTL to
\* which it comes after a failed delete is deleted with its registry entry,
\* unless its own delete raises, which leaves it and the entry as they are.
C16_SweepContinuesAfterFailure ==
    /\ [](sweeper.pc = "scan" => sweeper.todo # {})
    /\ [][\A d \in DirIds :
            SweptDir(d) =>
                /\ sweeper.todo # {d} =>
                       /\ sweeper'.pc = "scan"
                       /\ sweeper'.todo = sweeper.todo \ {d}
                       /\ sweeper'.now = sweeper.now
                /\ \A k \in DirIds \ {d} : DirUntouched(k)
                /\ FailedBefore /\ d # LogsDir /\ OlderThanTtl(d) =>
                       DirDeleted(d) \/ DirUntouched(d)
                /\ FailedBefore /\ d # LogsDir /\ OlderThanTtl(d) /\ sweeper'.pc = "scan" =>
                       (DirDeleted(d) <=> sweeper'.swept[Len(sweeper'.swept)].outcome = "deleted")]_vars

\* In one sweep the delete of the first directory raised, and the second, a
\* registered job's, was deleted and its registry entry removed.
C16_Witness ==
    /\ sweeper.pc = "scan"
    /\ Len(sweeper.swept) = 2
    /\ sweeper.swept[1].outcome = "failed"
    /\ sweeper.swept[2].outcome = "deleted"
    /\ sweeper.swept[2].registered
    /\ fs[sweeper.swept[1].dir].exists
    /\ LET k == sweeper.swept[2].dir IN ~fs[k].exists /\ k \notin JOBS

\* ------------------------------------------------------------------------
\* Outcome of a job

OutcomeKnown(j) == job[j].ok # "null"

\* C17 (Spec): a job's ok is non-null only in a terminal stage, true with done
\* and false with error; once non-null it is never changed or reset, so it
\* leaves "unknown" at most once in the job's life.
C17_OutcomeOnlyAtTerminal ==
    /\ [](\A j \in JobIds :
            /\ job[j].ok \in {"null", "true", "false"}
            /\ job[j].ok = "true" => job[j].stage = "done"
            /\ job[j].ok = "false" => job[j].stage = "error"
            /\ job[j].stage = "done" => job[j].ok = "true"
            /\ job[j].stage = "error" => job[j].ok = "false")
    /\ [][\A j \in JobIds : OutcomeKnown(j) => job'[j].ok = job[j].ok]_vars

C17_Witness ==
    \E j \in JobIds :
        /\ OutcomeKnown(j)
        /\ job[j].ok = "false" /\ job[j].stage = "error"
        /\ stageTrace[j] = ErrorPath
        /\ worker[j].pc = "returned"

\* ------------------------------------------------------------------ C18
\* C18 (SpecBus): every event a subscriber receives after the snapshot was
\* published no earlier than the last registry write the snapshot's stage
\* reflects: none describes a job state older than the snapshot's.
C18_NoEventOlderThanSnapshot ==
    \A s \in SubIds :
        LET r == reader[s].received IN
        \A i \in 2..Len(r) : r[i].serial >= reader[s].seen

\* ------------------------------------------------------------------ C19
\* C19 (Spec): every event published while a command runs carries no percent
\* or one of at most 99; an event with percent 100 is a terminal event, and a
\* job whose percent is 100 is in stage done or error.
C19_HundredOnlyAtTerminal ==
    /\ [](\A j \in JobIds :
            /\ lastEvent[j].percent = 100 => lastEvent[j].stage \in TerminalStages
            /\ job[j].percent = 100 => job[j].stage \in TerminalStages
            /\ job[j].stage \notin TerminalStages => job[j].percent <= 99)
    /\ [][\A j \in JobIds :
            worker[j].pc = "reading" /\ lastEvent'[j] # lastEvent[j] =>
                /\ lastEvent'[j].stage = "convert"
                /\ lastEvent'[j].percent <= 99]_vars

\* The tool printed "999%": the event published for the line carries 99, and
\* the job is at 99 in stage convert.
C19_Witness ==
    \E j \in JobIds :
        LET out == worker[j].full_output IN
        /\ worker[j].pc = "reading"
        /\ out # <<>> /\ out[Len(out)].pct = 999
        /\ lastEvent[j].percent = 99 /\ lastEvent[j].stage = "convert"
        /\ job[j].percent = 99 /\ job[j].stage = "convert"

\* ------------------------------------------------------------------ C20
\* C20 (Spec): every event of stage convert that carries a percent carries one
\* in percent_base..percent_base + percent_span, 5..85, whatever percentage the
\* tool printed, and the collect_output event never lowers the job's percent.
C20_ConvertPercentInSubRange ==
    /\ [](\A j \in JobIds :
            lastEvent[j].stage = "convert" /\ lastEvent[j].percent # NoPercent =>
                lastEvent[j].percent \in
                    ConvertPercentBase..(ConvertPercentBase + ConvertPercentSpan))
    /\ [][\A j \in JobIds :
            lastEvent'[j] # lastEvent[j] /\ lastEvent'[j].stage = "collect_output" =>
                job'[j].percent >= job[j].percent]_vars

\* ------------------------------------------------------------------ C21
\* What line 113-114 make of a progress line in stage convert.
MappedOf(line) == MappedPercent(line.pct, ConvertPercentBase, ConvertPercentSpan)

\* The highest percent the lines of a run map to, which is the percent the
\* run published last; LastSentInit for a run without a progress line.
RunHighest(out) ==
    LET S == {MappedOf(out[i]) : i \in {k \in 1..Len(out) : out[k].pct # NoPercent}}
    IN IF S = {} THEN LastSentInit ELSE CHOOSE m \in S : \A x \in S : x <= m

\* The running command printed a progress line and the runner handled it.
ProgressLineStep(j) ==
    /\ worker[j].pc = "reading" /\ worker'[j].pc = "reading"
    /\ Len(worker'[j].full_output) = Len(worker[j].full_output) + 1
    /\ worker'[j].full_output[Len(worker'[j].full_output)].pct # NoPercent

NewLine(j) == worker'[j].full_output[Len(worker'[j].full_output)]

\* C21 as stated (SpecAttempts): a progress line is published with a percent
\* only when its mapped percent exceeds the percent published last for the
\* job by at least the step, the first progress line of an attempt and of a
\* fallback attempt included; otherwise it is published as a log event
\* without a percent and the job's percent stays.
C21_StepAgainstLastPublished ==
    [][\A j \in JobIds :
        ProgressLineStep(j) =>
            /\ lastEvent'[j].type = "log"
            /\ lastEvent'[j].percent # NoPercent =>
                   MappedOf(NewLine(j)) - job[j].percent >= ProgressStep
            /\ lastEvent'[j].percent = NoPercent =>
                   job'[j].percent = job[j].percent]_vars

\* C21 amended (SpecAttempts): a progress line is published with its mapped
\* percent exactly when that exceeds by at least the step the percent the
\* same run published last, -1 when the run published none, so the first
\* progress line of every attempt is published with its percent whatever the
\* job's percent is; otherwise it is published as a log event without a
\* percent and the job's percent stays.
C21_StepWithinRun ==
    [][\A j \in JobIds :
        ProgressLineStep(j) =>
            LET mapped == MappedOf(NewLine(j))
                prev == RunHighest(worker[j].full_output)
            IN /\ lastEvent'[j].type = "log"
               /\ IF mapped - prev >= ProgressStep
                  THEN lastEvent'[j].percent = mapped /\ job'[j].percent = mapped
                  ELSE /\ lastEvent'[j].percent = NoPercent
                       /\ job'[j].percent = job[j].percent]_vars

\* The first attempt printed "999%", published as 99, and the second
\* attempt's first line "42%" was published as 38.
C21_Witness ==
    \E j \in JobIds :
        /\ worker[j].pc = "reading" /\ worker[j].idx = 2
        /\ Len(worker[j].output) = 2
        /\ worker[j].output[1].pct = 999 /\ worker[j].output[1].att = 1
        /\ worker[j].output[2].pct = 42 /\ worker[j].output[2].att = 2
        /\ lastEvent[j].percent = 38 /\ job[j].percent = 38

\* ------------------------------------------------------------------ C22
\* A step of publish_event's loop over list(st.subscribers).
DeliveryStep == delivery.todo # <<>> /\ delivery' # delivery

\* The loop is done with the subscriber at the head of its list.
DeliveredToHead == DeliveryStep /\ delivery'.todo # delivery.todo

\* C22 (SpecFanout): publish_event's loop deals with one subscriber's queue
\* at a time and changes no other queue; full or not, each queue of the list
\* ends with the event as its newest item, and the loop goes on to every
\* remaining subscriber, so the call returns to the worker.
C22_FullQueueAffectsOnlyItself ==
    [][/\ DeliveryStep =>
            /\ \A s \in QueueIds \ {Head(delivery.todo)} : queues'[s] = queues[s]
            /\ delivery'.todo \in {delivery.todo, Tail(delivery.todo)}
            /\ DeliveryFrame
       /\ DeliveredToHead =>
            LET q == queues'[Head(delivery.todo)] IN
            /\ q # <<>> /\ q[Len(q)] = delivery.event
            /\ delivery'.todo = Tail(delivery.todo)
            /\ delivery'.todo = <<>> => LockFree']_vars

\* Both queues are subscribed to one job; the first one was full when the
\* second event came and lost the first event, the second one's reader had
\* taken the first event, and both hold the second event.
C22_Witness ==
    \E a, b \in QueueIds :
        /\ a # b /\ reader[a].job = reader[b].job
        /\ job[reader[a].job].subscribers = <<a, b>>
        /\ LockFree
        /\ Len(reader[a].received) = 1
        /\ Len(queues[a]) = 1 /\ queues[a][1].serial = 2
        /\ Len(reader[b].received) = 2 /\ reader[b].received[2].serial = 1
        /\ queues[b] = queues[a]

C24_WinnerWroteResult ==
    /\ [](\A j \in JobIds :
            worker[j].pc = "popen" =>
                fs[j].md = 0 /\ ~fs[j].target /\ ~fs[j].log.present)
    /\ [][\A j \in JobIds :
            worker[j].pc = "probe" /\ worker'[j].pc = "save_log" =>
                fs[j].md = worker[j].idx]_vars

\* ------------------------------------------------------------------ C25
\* The generator of subscriber s is closed in this step.
DisconnectStep(s) == reader[s].pc = "streaming" /\ reader'[s].pc = "closed"

\* The record but for its subscribers.
Fields(st) == [st EXCEPT !.subscribers = <<>>]

RecordStates ==
    LET collecting == ApplyEvent(ConvertingJobState, CollectEvent, 0)
    IN {ConvertingJobState, collecting, ApplyEvent(collecting, DoneEvent, 0)}

\* C26 (SpecSnapshot): the stage, percent and ok of a snapshot are those the
\* job's record had at one instant.
C26_SnapshotOfOneInstant ==
    \A s \in SubIds :
        reader[s].received # <<>> =>
            LET snap == reader[s].received[1] IN
            \E st \in RecordStates :
                /\ snap.stage = st.stage
                /\ snap.percent = st.percent
                /\ snap.ok = st.ok

\* ------------------------------------------------------------------ C27
\* C27 (SpecAttempts): whatever the upload's name, the job directory holds
\* the source file before and after every attempt's clearing step, up to the
\* end of the loop over the candidates.
C27_SourceKept ==
    \A j \in JobIds : fs[j].exists /\ fs[j].source

\* ------------------------------------------------------------------ C28
\* A step in which publish_event was called for job j.
PublishStepFor(j) == serial' # serial /\ lastEvent'[j] # lastEvent[j]

\* C28 (SpecFanout): a publish_event for a job id that _JOBS does not hold
\* leaves the set of keys, every record, every stage history, every queue
\* and every generator as they were and returns with the lock released; the
\* queue of a subscriber whose job is not registered never receives an item.
C28_PublishUnregisteredIsNoOp ==
    /\ [](\A s \in QueueIds : reader[s].job \notin JOBS => queues[s] = <<>>)
    /\ [][\A j \in JobKeys :
            (j \notin JOBS /\ PublishStepFor(j)) =>
                /\ JOBS' = JOBS
                /\ job' = job
                /\ stageTrace' = stageTrace
                /\ queues' = queues
                /\ reader' = reader
                /\ delivery' = NoDelivery]_vars

\* Two events were published in a row for a job that is not registered and
\* whose record, held by a job_events call, still lists a subscriber.
C28_Witness ==
    \E j \in JobKeys :
        /\ j \notin JOBS
        /\ job[j].subscribers # <<>>
        /\ serial >= 2
        /\ lastEvent[j].serial = serial
        /\ LockFree

\* ------------------------------------------------------------------ C29
\* The items of a sequence that were published: those that are no snapshot.
PublishedItems(q) == {q[i] : i \in {k \in 1..Len(q) : q[k].type # "snapshot"}}

\* C29 (SpecFanout): a publish_event for job a leaves the record and the stage
\* history of every other job as they were and starts a delivery loop over
\* queues of job a's subscribers only; and every published item that is in a
\* subscriber's queue, or that its generator yielded, carries the job_id of
\* the job that subscriber asked for.
C29_PublishTouchesOnlyItsJob ==
    /\ [](\A s \in QueueIds :
            \A item \in PublishedItems(queues[s]) \cup PublishedItems(reader[s].received) :
                item.job_id = reader[s].job)
    /\ [][\A a \in JobKeys :
            PublishStepFor(a) =>
                /\ \A b \in JobKeys \ {a} :
                      job'[b] = job[b] /\ stageTrace'[b] = stageTrace[b]
                /\ queues' = queues
                /\ \A i \in 1..Len(delivery'.todo) :
                      reader[delivery'.todo[i]].job = a]_vars

\* Two registered jobs have one subscriber each, and each subscriber was
\* yielded an event published for its job.
C29_Witness ==
    /\ JOBS = JobKeys
    /\ reader["s1"].job # reader["s2"].job
    /\ \A s \in QueueIds : PublishedItems(reader[s].received) # {}

\* ------------------------------------------------------------------ C30
\* C30 (SpecUnregister): the sweeper's step for a directory whose rmtree
\* raised leaves _JOBS as it was, and whenever a key leaves _JOBS the
\* directory of that name is not on disk.
C30_UnregisteredOnlyWithoutDirectory ==
    /\ [][\A d \in DirIds :
            (sweeper.pc = "scan" /\ d \in sweeper.todo /\ sweeper' # sweeper
             /\ fs'[d].exists) => JOBS' = JOBS]_vars
    /\ [][\A d \in JobKeys :
            (d \in JOBS /\ d \notin JOBS') => ~fs'[d].exists]_vars
====
